---- MODULE Spec2Model ----
(***************************************************************************)
(* Model of the AI-Powered System Configuration Manager.                   *)
(*                                                                         *)
(* Three front ends re-implement the same pipeline:                        *)
(*   "cli"       src/windows_config_manager.py  (WindowsConfigManager)     *)
(*   "streamlit" src/streamlit_config_app.py    (ConfigManager)            *)
(*   "dashboard" src/dashboard.py               (module-level functions)   *)
(*                                                                         *)
(* Units.  Snapshot percentages (cpu_percent, memory_percent,              *)
(* disk_percent) are integers in tenths of a percent: psutil rounds them   *)
(* to one decimal, so 80.0 is 800 and the threshold "cpu > 80" is          *)
(* "cpu > 800".  Per-process readings are integers in thousandths of a     *)
(* percent, because psutil does not round a process's memory_percent.      *)
(* The emoji that prefix the advisory strings are left out of the string   *)
(* literals; the words are the source's.                                   *)
(***************************************************************************)
EXTENDS Integers, Sequences, FiniteSets, TLC

VARIABLES
    fe,        \* the front end whose code is running
    snap,      \* the snapshot handed to classify / recommend
    procs,     \* the OS process enumeration seen by psutil.process_iter
    topN,      \* the argument n of get_top_processes
    state,     \* result of the last classify call (NoState before one)
    rec,       \* result of the last recommend call (NoRec before one)
    top,       \* result of the last get_top_processes call
    metrics_history,  \* manager.metrics_history (while it is a list)
    history_type,     \* "list", or "nonlist" once a non-list JSON value was loaded
    model,            \* manager.model
    scaler,           \* manager.scaler
    metrics_file,     \* content of system_metrics.json / streamlit_metrics.json
    model_file,       \* content of config_model.pkl / streamlit_model.pkl
    pc,               \* where the front end's process is
    count,            \* run_monitoring's sample counter
    loop,             \* run_monitoring's arguments (duration, interval)
    clock,            \* number of snapshots appended so far (stamps the next one)
    lastOp,           \* the last operation: its name and how it ended
    budget,           \* trainings, write failures, restarts left; cap on appends
    saved,            \* history variable: the log written by the last write of
                      \* metrics_file, valid while that write is what the file holds
    report,           \* what the last monitoring pass computed and printed
    session,          \* history variable: what load_model returned and whether
                      \* train_model fitted a model, in the running process
    peer              \* the log of a second manager using the same metrics file

coreVars == <<snap, procs, topN, state, rec, top>>

storeVars == <<metrics_history, history_type, model, scaler, metrics_file,
               model_file, pc, count, loop, clock, lastOp, budget, saved,
               report, session, peer>>

vars == <<fe, snap, procs, topN, state, rec, top, metrics_history, history_type,
          model, scaler, metrics_file, model_file, pc, count, loop, clock, lastOp, budget, saved,
          report, session, peer>>

FrontEnds == {"cli", "streamlit", "dashboard"}

Min(a, b) == IF a < b THEN a ELSE b
Max(a, b) == IF a > b THEN a ELSE b

(***************************************************************************)
(* Bounds of the input spaces.                                             *)
(***************************************************************************)
MaxProcs == 3       \* longest process enumeration explored
MaxN     == 3       \* largest n handed to get_top_processes
MaxClock == 103     \* snapshots appended in one behaviour of SpecLong
MaxSamples == 10    \* snapshots appended in one behaviour of Spec
MaxTrainings     == 1   \* train_model calls that reach the fit
MaxWriteFailures == 1   \* file writes that fail
MaxRestarts      == 1   \* process restarts / new sessions

\* Snapshot readings, in tenths of a percent: every threshold, the value
\* just above it, and the ends of the range.
CpuVals   == {0, 100, 300, 301, 600, 601, 800, 801, 900, 1000}
MemVals   == {0, 100, 500, 501, 700, 701, 850, 851, 1000}
DiskVals  == {100, 950}
CountVals == {50, 100}


(***************************************************************************)
(* StateClassifier.                                                        *)
(***************************************************************************)
NoState == "NONE"

\* Faulty variant: the thresholds compared with >= instead of >
analyze_system_state_inclusive(metrics) ==
    LET cpu == metrics.cpu_percent
        mem == metrics.memory_percent
    IN  IF cpu >= 800 \/ mem >= 850 THEN "CRITICAL"
        ELSE IF cpu >= 600 \/ mem >= 700 THEN "HIGH_LOAD"
        ELSE IF cpu >= 300 \/ mem >= 500 THEN "MODERATE"
        ELSE "IDLE"

\* WindowsConfigManager.analyze_system_state
analyze_system_state(metrics) ==
    LET cpu == metrics.cpu_percent
        mem == metrics.memory_percent
    IN  IF cpu > 800 \/ mem > 850 THEN "CRITICAL"
        ELSE IF cpu > 600 \/ mem > 700 THEN "HIGH_LOAD"
        ELSE IF cpu > 300 \/ mem > 500 THEN "MODERATE"
        ELSE "IDLE"

\* dashboard.analyze_system_state
dashboard_analyze_system_state(metrics) ==
    LET cpu == metrics.cpu_percent
        mem == metrics.memory_percent
    IN  IF cpu > 800 \/ mem > 850 THEN "CRITICAL"
        ELSE IF cpu > 600 \/ mem > 700 THEN "HIGH_LOAD"
        ELSE IF cpu > 300 \/ mem > 500 THEN "MODERATE"
        ELSE "IDLE"

\* Faulty variant: the first memory test turned round
analyze_state_mem_reversed(metrics) ==
    LET cpu == metrics.cpu_percent
        mem == metrics.memory_percent
    IN  IF cpu > 800 \/ mem < 850 THEN <<"CRITICAL", "#ff0000">>
        ELSE IF cpu > 600 \/ mem > 700 THEN <<"HIGH LOAD", "#ff9900">>
        ELSE IF cpu > 300 \/ mem > 500 THEN <<"MODERATE", "#3399ff">>
        ELSE <<"OPTIMAL", "#00ff00">>

\* ConfigManager.analyze_state: returns the pair (state, colour)
analyze_state(metrics) ==
    LET cpu == metrics.cpu_percent
        mem == metrics.memory_percent
    IN  IF cpu > 800 \/ mem > 850 THEN <<"CRITICAL", "#ff0000">>
        ELSE IF cpu > 600 \/ mem > 700 THEN <<"HIGH LOAD", "#ff9900">>
        ELSE IF cpu > 300 \/ mem > 500 THEN <<"MODERATE", "#3399ff">>
        ELSE <<"OPTIMAL", "#00ff00">>

\* The state a front end's classifier reports for a snapshot.
Classify(f, metrics) ==
    CASE f = "cli"       -> analyze_system_state(metrics)
      [] f = "dashboard" -> dashboard_analyze_system_state(metrics)
      [] f = "streamlit" -> analyze_state(metrics)[1]

(***************************************************************************)
(* ProcessRanker.                                                          *)
(*                                                                         *)
(* An element of the enumeration is what psutil.process_iter yields for    *)
(* one process: its name, its cpu_percent and memory_percent (thousandths  *)
(* of a percent, or None when the attribute was inaccessible), and the     *)
(* exception, if any, that reading proc.info raises.                       *)
(***************************************************************************)
None == -1

Proc(nm, c, m, r) == [name |-> nm, cpu_percent |-> c, memory_percent |-> m, raises |-> r]

\* Python's list.sort(key=..., reverse=True): stable, descending by key.
\* Insert(e, s) puts e behind every element whose key is at least e's.
RECURSIVE InsertDesc(_, _, _, _)
InsertDesc(e, ke, s, ks) ==
    IF s = <<>> THEN [l |-> <<e>>, k |-> <<ke>>]
    ELSE IF Head(ks) >= ke
         THEN LET r == InsertDesc(e, ke, Tail(s), Tail(ks))
              IN  [l |-> <<Head(s)>> \o r.l, k |-> <<Head(ks)>> \o r.k]
         ELSE [l |-> <<e>> \o s, k |-> <<ke>> \o ks]

\* Sorts the list l whose keys are the list ks (same length).
RECURSIVE SortDescFrom(_, _, _)
SortDescFrom(l, ks, acc) ==
    IF l = <<>> THEN acc
    ELSE SortDescFrom(Tail(l), Tail(ks), InsertDesc(Head(l), Head(ks), acc.l, acc.k))

SortDesc(l, ks) == SortDescFrom(l, ks, [l |-> <<>>, k |-> <<>>]).l

\* Python's slice seq[:n]
SlicePrefixNeg(s, n) == SubSeq(s, 1, Max(0, Len(s) + n))
SlicePrefix(s, n) ==
    IF n >= 0 THEN SubSeq(s, 1, Min(n, Len(s))) ELSE SlicePrefixNeg(s, n)

\* Python's round(x, 2) on a value in thousandths (no exact halves occur
\* in the readings explored).
Round2(v) == ((v + 5) \div 10) * 10

\* The loop of WindowsConfigManager.get_top_processes and of
\* dashboard.get_top_processes: "None > 0" raises TypeError, which the
\* except clause (NoSuchProcess, AccessDenied) does not catch.
RECURSIVE CollectPlain(_, _)
CollectPlain(enum, acc) ==
    IF enum = <<>> THEN [err |-> "none", list |-> acc]
    ELSE LET info == Head(enum) IN
         IF info.raises # "none" THEN CollectPlain(Tail(enum), acc)
         ELSE IF info.cpu_percent = None THEN [err |-> "TypeError", list |-> acc]
         ELSE IF info.cpu_percent > 0
              THEN CollectPlain(Tail(enum),
                       Append(acc, [name |-> info.name, cpu |-> info.cpu_percent,
                                    memory |-> info.memory_percent]))
         ELSE IF info.memory_percent = None THEN [err |-> "TypeError", list |-> acc]
         ELSE IF info.memory_percent > 0
              THEN CollectPlain(Tail(enum),
                       Append(acc, [name |-> info.name, cpu |-> info.cpu_percent,
                                    memory |-> info.memory_percent]))
         ELSE CollectPlain(Tail(enum), acc)

\* The sort key lambda x: x['cpu'] + x['memory'] raises TypeError on None.
PlainKeys(l) == [i \in 1..Len(l) |-> l[i].cpu + l[i].memory]
PlainKeyFails(l) == \E i \in 1..Len(l) : l[i].memory = None

PlainTop(enum, n) ==
    LET c == CollectPlain(enum, <<>>) IN
    IF c.err # "none" THEN [err |-> c.err, list |-> <<>>]
    ELSE IF PlainKeyFails(c.list) THEN [err |-> "TypeError", list |-> <<>>]
    ELSE [err |-> "none", list |-> SlicePrefix(SortDesc(c.list, PlainKeys(c.list)), n)]

\* WindowsConfigManager.get_top_processes
get_top_processes(enum, n) == PlainTop(enum, n)

\* dashboard.get_top_processes
dashboard_get_top_processes(enum, n) == PlainTop(enum, n)

\* The loop of ConfigManager.get_top_processes: None readings are skipped,
\* and the entry stores the readings rounded to two decimals.
RECURSIVE CollectStreamlit(_, _)
CollectStreamlit(enum, acc) ==
    IF enum = <<>> THEN acc
    ELSE LET info == Head(enum) IN
         IF info.raises # "none" THEN CollectStreamlit(Tail(enum), acc)
         ELSE IF info.cpu_percent # None /\ info.memory_percent # None
                 /\ (info.cpu_percent > 0 \/ info.memory_percent > 0)
              THEN CollectStreamlit(Tail(enum),
                       Append(acc, [name |-> info.name, cpu |-> Round2(info.cpu_percent),
                                    memory |-> Round2(info.memory_percent)]))
         ELSE CollectStreamlit(Tail(enum), acc)

\* ConfigManager.get_top_processes (the entry's keys 'Process', 'CPU (%)',
\* 'Memory (%)' are written name, cpu, memory)
streamlit_get_top_processes(enum, n) ==
    LET l == CollectStreamlit(enum, <<>>)
    IN  [err |-> "none", list |-> SlicePrefix(SortDesc(l, PlainKeys(l)), n)]

TopProcessesOf(f, enum, n) ==
    CASE f = "cli"       -> get_top_processes(enum, n)
      [] f = "dashboard" -> dashboard_get_top_processes(enum, n)
      [] f = "streamlit" -> streamlit_get_top_processes(enum, n)

(***************************************************************************)
(* RecommendationEngine.                                                   *)
(*                                                                         *)
(* An action string is a record: an advisory ("advice"), a readout line    *)
(* ("mem", "cpu") carrying the value as formatted by ":.1f", the header of *)
(* the process section ("header"), or one process line ("proc") carrying   *)
(* the name and the two formatted percentages.                             *)
(***************************************************************************)
TopDefault == 5

\* f"{x:.1f}" on a snapshot reading (tenths): integer part, one decimal.
Fmt1(v) == <<v \div 10, v % 10>>

\* f"{x:.1f}" on a process reading (thousandths): rounded to one decimal
\* (no exact halves occur in the readings explored).
Fmt1Proc(v) == Fmt1((v + 50) \div 100)

NoNum == <<0, 0>>

Advice(t)     == [kind |-> "advice", text |-> t, a |-> NoNum, b |-> NoNum]
MemLine(m)    == [kind |-> "mem", text |-> "Memory Usage: ", a |-> Fmt1(m.memory_percent), b |-> NoNum]
CpuLine(m)    == [kind |-> "cpu", text |-> "CPU Usage: ", a |-> Fmt1(m.cpu_percent), b |-> NoNum]
HeaderLine    == [kind |-> "header", text |-> "Top Resource Consumers:", a |-> NoNum, b |-> NoNum]
ProcLine(p)   == [kind |-> "proc", text |-> p.name, a |-> Fmt1Proc(p.cpu), b |-> Fmt1Proc(p.memory)]

\* The advisory strings of WindowsConfigManager.get_recommendations
CliTemplate(st) ==
    CASE st = "CRITICAL"  -> << Advice("CRITICAL: System under heavy load"),
                                Advice("Close unnecessary applications immediately"),
                                Advice("Disable startup programs"),
                                Advice("Clear temporary files"),
                                Advice("Restart high-memory processes") >>
      [] st = "HIGH_LOAD" -> << Advice("System experiencing high load"),
                                Advice("Consider closing browser tabs"),
                                Advice("Disable background apps"),
                                Advice("Check for Windows updates running") >>
      [] st = "MODERATE"  -> << Advice("System running normally"),
                                Advice("Performance optimizations available"),
                                Advice("Consider disk cleanup if needed") >>
      [] OTHER            -> << Advice("System running optimally"),
                                Advice("No immediate actions needed"),
                                Advice("Good time for maintenance tasks") >>

CliPriority(st) ==
    CASE st = "CRITICAL"  -> "CRITICAL"
      [] st = "HIGH_LOAD" -> "HIGH"
      [] st = "MODERATE"  -> "MEDIUM"
      [] OTHER            -> "LOW"

RenderProcs(l) == [i \in 1..Len(l) |-> ProcLine(l[i])]

\* WindowsConfigManager.get_recommendations: the dict it returns, or the
\* exception that escapes from its call of get_top_processes(5).
get_recommendations(metrics, st, enum) ==
    LET base == CliTemplate(st) \o <<MemLine(metrics), CpuLine(metrics)>>
        top_processes == get_top_processes(enum, TopDefault)
    IN  IF top_processes.err # "none"
        THEN [err |-> top_processes.err, value |-> <<>>]
        ELSE [err |-> "none",
              value |-> [state |-> st,
                         priority |-> CliPriority(st),
                         actions |-> IF top_processes.list # <<>>
                                     THEN base \o <<HeaderLine>> \o RenderProcs(top_processes.list)
                                     ELSE base]]

\* dashboard.get_recommendations: the dict has the keys 'state' and
\* 'actions' only, and the process enumeration is not consulted.
dashboard_get_recommendations(metrics, st) ==
    [err |-> "none",
     value |-> [state |-> st,
                actions |->
                  CASE st = "CRITICAL"  -> << Advice("CRITICAL: System under heavy load"),
                                              Advice("Close unnecessary applications immediately"),
                                              Advice("Disable startup programs"),
                                              Advice("Clear temporary files"),
                                              MemLine(metrics), CpuLine(metrics) >>
                    [] st = "HIGH_LOAD" -> << Advice("System experiencing high load"),
                                              Advice("Consider closing browser tabs"),
                                              Advice("Disable background apps"),
                                              Advice("Check for Windows updates running"),
                                              MemLine(metrics) >>
                    [] st = "MODERATE"  -> << Advice("System running normally"),
                                              Advice("Performance optimizations available"),
                                              Advice("Consider disk cleanup if needed"),
                                              MemLine(metrics) >>
                    [] OTHER            -> << Advice("System running optimally"),
                                              Advice("No immediate actions needed"),
                                              Advice("Good time for maintenance tasks") >>]]

\* ConfigManager.get_recommendations: returns the bare list of advisories.
streamlit_get_recommendations(st, metrics) ==
    [err |-> "none",
     value |->
       CASE st = "CRITICAL"  -> << Advice("CRITICAL: System under heavy load"),
                                   Advice("Close unnecessary applications immediately"),
                                   Advice("Disable startup programs"),
                                   Advice("Clear temporary files"),
                                   Advice("Restart high-memory processes") >>
         [] st = "HIGH LOAD" -> << Advice("System experiencing high load"),
                                   Advice("Consider closing browser tabs"),
                                   Advice("Disable background applications"),
                                   Advice("Check for Windows updates running") >>
         [] st = "MODERATE"  -> << Advice("System running normally"),
                                   Advice("Performance optimizations available"),
                                   Advice("Consider disk cleanup if needed") >>
         [] OTHER            -> << Advice("System running optimally"),
                                   Advice("No immediate actions needed"),
                                   Advice("Good time for maintenance tasks") >>]

RecommendOf(f, metrics, st, enum) ==
    CASE f = "cli"       -> get_recommendations(metrics, st, enum)
      [] f = "dashboard" -> dashboard_get_recommendations(metrics, st)
      [] f = "streamlit" -> streamlit_get_recommendations(st, metrics)

NoRec == [err |-> "nocall", value |-> <<>>]
NoTop == [err |-> "nocall", list |-> <<>>]

(***************************************************************************)
(* MetricsSampler.  The host's load is a fixed periodic trace, so that the *)
(* snapshot appended at tick t is Sample(t); the trace visits all four     *)
(* states.  A snapshot that is analysed but not appended carries the       *)
(* stamp of the next append.                                               *)
(***************************************************************************)
HostCpu(t) == <<100, 301, 601, 801>>[(t % 4) + 1]
HostMem(t) == <<100, 501, 851>>[(t % 3) + 1]

\* collect_system_metrics / collect_metrics at tick t
Sample(t) ==
    [timestamp |-> t,
     cpu_percent |-> HostCpu(t),
     memory_percent |-> HostMem(t),
     memory_available_gb |-> 40,
     disk_percent |-> 555,
     process_count |-> 100 + (t % 2),
     cpu_freq |-> 0]

(***************************************************************************)
(* Persistence.  A file is absent, empty (nothing but white space),        *)
(* malformed (json.loads raises JSONDecodeError), a JSON value that is not *)
(* a list ("nonlist", e.g. 42), or a JSON list of records ("list").  A     *)
(* record is stored as json.dump writes it: every number as its decimal    *)
(* digits, the integer part and the fraction digit of a float, the digits  *)
(* of an int, the tick of the ISO time string.                             *)
(***************************************************************************)
JsonFloat(v) == [t |-> "float", d |-> <<v \div 10, v % 10>>]
JsonInt(n)   == [t |-> "int",   d |-> <<n, 0>>]
JsonStr(x)   == [t |-> "str",   d |-> <<x, 0>>]

EncodeSnapshot(m) ==
    [timestamp |-> JsonStr(m.timestamp),
     cpu_percent |-> JsonFloat(m.cpu_percent),
     memory_percent |-> JsonFloat(m.memory_percent),
     memory_available_gb |-> JsonFloat(m.memory_available_gb),
     disk_percent |-> JsonFloat(m.disk_percent),
     process_count |-> JsonInt(m.process_count),
     cpu_freq |-> JsonInt(m.cpu_freq)]

DecodeToken(tok) == IF tok.t = "float" THEN tok.d[1] * 10 + tok.d[2] ELSE tok.d[1]

DecodeSnapshot(e) ==
    [timestamp |-> DecodeToken(e.timestamp),
     cpu_percent |-> DecodeToken(e.cpu_percent),
     memory_percent |-> DecodeToken(e.memory_percent),
     memory_available_gb |-> DecodeToken(e.memory_available_gb),
     disk_percent |-> DecodeToken(e.disk_percent),
     process_count |-> DecodeToken(e.process_count),
     cpu_freq |-> DecodeToken(e.cpu_freq)]

FileOf(k) == [kind |-> k, items |-> <<>>]
Absent    == FileOf("absent")

\* json.dump(history, f): the whole text of the file after a complete write
json_dump(history) ==
    [kind |-> "list", items |-> [i \in 1..Len(history) |-> EncodeSnapshot(history[i])]]

\* json.loads(content) of a non-empty text
json_loads(file) ==
    CASE file.kind = "malformed" -> [err |-> "JSONDecodeError", type |-> "none", value |-> <<>>]
      [] file.kind = "nonlist"   -> [err |-> "none", type |-> "nonlist", value |-> <<>>]
      [] file.kind = "list"      -> [err |-> "none", type |-> "list",
                                     value |-> [i \in 1..Len(file.items) |->
                                                   DecodeSnapshot(file.items[i])]]

\* What open(path, 'w') followed by a write can leave behind:
\*   "ok"          the new content replaces the old one;
\*   "open_fails"  open raises (e.g. PermissionError), the file is untouched;
\*   "cut_empty"   open truncated the file and the write raised at once;
\*   "cut_partial" the write raised part-way, leaving an unparseable prefix.
WriteOutcomes == {"ok", "open_fails", "cut_empty", "cut_partial"}

\* Faulty variant: the file opened in append mode
WriteAppending(old, new, outcome) ==
    IF outcome = "ok" /\ old.kind = "list"
    THEN [kind |-> "list", items |-> old.items \o new.items]
    ELSE new
WriteResult(old, new, outcome) ==
    CASE outcome = "ok"          -> new
      [] outcome = "open_fails"  -> old
      [] outcome = "cut_empty"   -> FileOf("empty")
      [] outcome = "cut_partial" -> FileOf("malformed")

NoSaved == [valid |-> FALSE, log |-> <<>>]

\* The history variable after a write of the log h.
SavedAfter(h, outcome) ==
    CASE outcome = "ok"         -> [valid |-> TRUE, log |-> h]
      [] outcome = "open_fails" -> saved
      [] OTHER                  -> NoSaved

(***************************************************************************)
(* The manager object and its persisted model.                             *)
(***************************************************************************)
MinSamples == 10      \* train_model's "if len(self.metrics_history) < 10"
HistoryCap == 100     \* ConfigManager.save_metrics keeps the last 100

NoModel  == [set |-> FALSE, gen |-> 0]           \* self.model = None
Unfitted == [fitted |-> FALSE, gen |-> 0]        \* self.scaler = StandardScaler()

ModelFileOf(k) == [kind |-> k, model |-> NoModel, scaler |-> Unfitted]
Pickle(m, sc)  == [kind |-> "pickle", model |-> m, scaler |-> sc]

\* What open(path, 'wb') followed by pickle.dump can leave behind.
ModelWriteResult(old, new, outcome) ==
    CASE outcome = "ok"          -> new
      [] outcome = "open_fails"  -> old
      [] outcome = "cut_empty"   -> ModelFileOf("empty")
      [] outcome = "cut_partial" -> ModelFileOf("corrupt")

Op(o, raised, ret, msg) == [op |-> o, raised |-> raised, ret |-> ret, msg |-> msg]

\* WindowsConfigManager.load_metrics: the new history, the exception that
\* escapes and the message printed.
load_metrics(file, history) ==
    IF file.kind = "absent"
    THEN [history |-> history, type |-> "list", raised |-> "none", msg |-> "no_previous_data"]
    ELSE IF file.kind = "empty"
    THEN [history |-> <<>>, type |-> "list", raised |-> "none", msg |-> "warn_empty_file"]
    ELSE LET parsed == json_loads(file) IN
         IF parsed.err # "none"
         THEN [history |-> <<>>, type |-> "list", raised |-> "none", msg |-> "warn_corrupted_file"]
         ELSE IF parsed.type = "nonlist"
         \* len() of the loaded value in the print raises TypeError
         THEN [history |-> <<>>, type |-> "nonlist", raised |-> "TypeError", msg |-> "none"]
         ELSE [history |-> parsed.value, type |-> "list", raised |-> "none", msg |-> "loaded"]

\* ConfigManager.load_metrics: nothing is reported in any case.
streamlit_load_metrics(file, history) ==
    IF file.kind = "absent" \/ file.kind = "empty"
    THEN [history |-> history, type |-> "list", raised |-> "none", msg |-> "none"]
    ELSE LET parsed == json_loads(file) IN
         IF parsed.err # "none"
         THEN [history |-> <<>>, type |-> "list", raised |-> "none", msg |-> "none"]
         ELSE [history |-> parsed.value, type |-> parsed.type, raised |-> "none", msg |-> "none"]

\* WindowsConfigManager.load_model
load_model(file, m, sc) ==
    CASE file.kind = "absent"  -> [model |-> m, scaler |-> sc, ret |-> "False", msg |-> "no_trained_model"]
      [] file.kind = "empty"   -> [model |-> m, scaler |-> sc, ret |-> "False", msg |-> "warn_empty_model_file"]
      [] file.kind = "corrupt" -> [model |-> m, scaler |-> sc, ret |-> "False", msg |-> "warn_could_not_load"]
      [] file.kind = "pickle"  -> [model |-> file.model, scaler |-> file.scaler,
                                   ret |-> "True", msg |-> "model_loaded"]
      \* a pickled dict without the key 'scaler': self.model is assigned,
      \* then data['scaler'] raises KeyError, caught by "except Exception"
      [] file.kind = "no_scaler" -> [model |-> file.model, scaler |-> sc,
                                     ret |-> "False", msg |-> "warn_could_not_load"]

\* WindowsConfigManager.predict_state: the values the call can produce.
\* "None" without a model; NotFittedError from scaler.transform when the
\* scaler was never fitted; otherwise the class the fitted tree gives, which
\* may be any of the four states.
predict_state(m, sc, metrics) ==
    IF ~m.set THEN {"None"}
    ELSE IF ~sc.fitted THEN {"NotFittedError"}
    ELSE {"IDLE", "MODERATE", "HIGH_LOAD", "CRITICAL"}

\* run_monitoring: "self.predict_state(metrics) if self.model else None"
PredictIfModel(m, sc, metrics) ==
    IF m.set THEN predict_state(m, sc, metrics) ELSE {"None"}

\* Faulty variant: the prediction, when there is one, replaces the state
StateForRecommendOverridden(st, predicted) == IF predicted # "None" THEN predicted ELSE st
\* run_monitoring hands the classifier's state to get_recommendations
StateForRecommend(st, predicted) == st

\* run_monitoring: "if predicted_state and predicted_state != state: print"
AiLine(st, predicted) ==
    IF predicted # "None" /\ predicted # st THEN predicted ELSE "none"

\* Faulty variant: a save on every fourth pass
SaveDueEveryFourth(c) == c % 4 = 0
\* run_monitoring: "if count % 3 == 0: self.save_metrics()"
SaveDue(c) == c % 3 = 0

NoReport  == [state |-> NoState, priority |-> "none", predicted |-> "None",
              ai_line |-> "none", in_log_at_recommend |-> FALSE]
NoSession == [load_ok |-> "None", trained |-> FALSE]

InLog(m, h) == \E i \in 1..Len(h) : h[i] = m

\* The append of ConfigManager.save_metrics with its "keep only last 100"
Trim(h) == IF Len(h) > HistoryCap THEN SubSeq(h, Len(h) - HistoryCap + 1, Len(h)) ELSE h

CanFail(outcome) == outcome = "ok" \/ budget.fail > 0
Spend(outcome) == IF outcome = "ok" THEN budget ELSE [budget EXCEPT !.fail = @ - 1]

(***************************************************************************)
(* Spec: the life of one manager (command-line menu or Streamlit session)  *)
(* together with its two files.                                            *)
(***************************************************************************)
StoreFrontEnds == {"cli", "streamlit"}

PriorHistory == <<Sample(0)>>
PriorModel   == Pickle([set |-> TRUE, gen |-> 0], [fitted |-> TRUE, gen |-> 0])
\* a model file whose pickled dict has 'model' but no 'scaler'
NoScalerModel == [kind |-> "no_scaler", model |-> [set |-> TRUE, gen |-> 0], scaler |-> Unfitted]

InitMetricsFiles == {Absent, FileOf("empty"), FileOf("malformed"), FileOf("nonlist"),
                     json_dump(PriorHistory)}
InitModelFiles   == {ModelFileOf("absent"), ModelFileOf("empty"), ModelFileOf("corrupt"),
                     PriorModel, NoScalerModel}

\* Process enumerations met by the manager: a plain one, and one holding a
\* process whose cpu_percent is inaccessible.
StoreEnums == { <<Proc("chrome.exe", 1500, 2500, "none")>>,
                <<Proc("System", None, 4, "none")>> }

FullBudget == [train |-> MaxTrainings, fail |-> MaxWriteFailures, restart |-> MaxRestarts,
               samples |-> MaxSamples]

NoLoop == [duration |-> 0, interval |-> 0]

\* __init__ of WindowsConfigManager / ConfigManager
Constructed ==
    /\ metrics_history = <<>>
    /\ history_type = "list"
    /\ model = NoModel
    /\ scaler = Unfitted
    /\ count = 0
    /\ loop = NoLoop
    /\ report = NoReport
    /\ session = NoSession

Init ==
    /\ fe \in StoreFrontEnds
    /\ snap = Sample(0)
    /\ procs \in StoreEnums
    /\ topN = TopDefault
    /\ state = NoState
    /\ rec = NoRec
    /\ top = NoTop
    /\ Constructed
    /\ metrics_file \in InitMetricsFiles
    /\ model_file \in InitModelFiles
    /\ pc = "start"
    /\ clock = 0
    /\ lastOp = Op("init", "none", "None", "none")
    /\ budget = FullBudget
    /\ saved = NoSaved
    /\ peer = <<>>

\* main: manager.load_metrics() / session start: manager.load_metrics()
LoadMetrics ==
    /\ pc = "start"
    /\ LET r == IF fe = "cli" THEN load_metrics(metrics_file, metrics_history)
                ELSE streamlit_load_metrics(metrics_file, metrics_history)
       IN  /\ metrics_history' = r.history
           /\ history_type' = r.type
           /\ lastOp' = Op("load_metrics", r.raised, "None", r.msg)
           /\ pc' = IF r.raised # "none" THEN "crashed"
                    ELSE IF fe = "cli" THEN "loaded" ELSE "ready"
    /\ UNCHANGED <<fe, coreVars, model, scaler, metrics_file, model_file, count, loop, clock,
                   budget, saved, report, session, peer>>

\* main: manager.load_model()
LoadModel ==
    /\ fe = "cli"
    /\ pc = "loaded"
    /\ LET r == load_model(model_file, model, scaler)
       IN  /\ model' = r.model
           /\ scaler' = r.scaler
           /\ lastOp' = Op("load_model", "none", r.ret, r.msg)
           /\ session' = [session EXCEPT !.load_ok = r.ret]
    /\ pc' = "ready"
    /\ UNCHANGED <<fe, coreVars, metrics_history, history_type, metrics_file, model_file,
                   count, loop, clock, budget, saved, report, peer>>

\* Sidebar button "Collect Data Sample": collect_metrics, then
\* ConfigManager.save_metrics(metrics): append, trim, write (errors caught).
CollectSample ==
    /\ fe = "streamlit"
    /\ pc = "ready"
    /\ clock < budget.samples
    /\ snap' = Sample(clock + 1)
    /\ IF history_type # "list"
       THEN \* self.metrics_history.append raises AttributeError
            /\ lastOp' = Op("save_metrics", "AttributeError", "None", "none")
            /\ UNCHANGED <<metrics_history, metrics_file, clock, budget, saved>>
       ELSE \E outcome \in WriteOutcomes :
            /\ CanFail(outcome)
            /\ clock' = clock + 1
            /\ metrics_history' = Trim(Append(metrics_history, snap'))
            /\ metrics_file' = WriteResult(metrics_file, json_dump(metrics_history'), outcome)
            /\ saved' = SavedAfter(metrics_history', outcome)
            /\ budget' = Spend(outcome)
            /\ lastOp' = Op("save_metrics", "none", "None",
                            IF outcome = "ok" THEN "none" ELSE "error_saving_metrics")
    /\ UNCHANGED <<fe, procs, topN, state, rec, top, history_type, model, scaler,
                   model_file, pc, count, loop, report, session, peer>>

\* Menu options 2 and 5: run_monitoring(duration, interval) up to its loop
MonitorArgs == { [duration |-> 60, interval |-> 5], [duration |-> 300, interval |-> 10] }

StartMonitoring ==
    /\ fe = "cli"
    /\ pc = "ready"
    /\ \E a \in MonitorArgs : loop' = a
    /\ count' = 0
    /\ pc' = "monitoring"
    /\ lastOp' = Op("run_monitoring", "none", "None", "none")
    /\ UNCHANGED <<fe, coreVars, metrics_history, history_type, model, scaler,
                   metrics_file, model_file, clock, budget, saved, report, session, peer>>

\* The least time one pass of the loop takes: cpu_percent(interval=1)
\* blocks for a second, then time.sleep(interval).
Elapsed == count * (loop.interval + 1)

\* One pass of run_monitoring's while loop, taken while the elapsed time
\* is below the duration: count, collect, classify, predict (if a model is
\* set), append, get_recommendations, print, save on every third pass.
MonitorSample ==
    /\ fe = "cli"
    /\ pc = "monitoring"
    /\ Elapsed < loop.duration
    /\ clock < budget.samples
    /\ count' = count + 1
    /\ snap' = Sample(clock + 1)
    /\ state' = analyze_system_state(snap')
    /\ \E predicted \in PredictIfModel(model, scaler, snap') :
       IF predicted = "NotFittedError"
       THEN \* the exception leaves run_monitoring before the append
            /\ pc' = "crashed"
            /\ lastOp' = Op("monitor_sample", "NotFittedError", "None", "none")
            /\ UNCHANGED <<clock, metrics_history, rec, metrics_file, budget, saved, report>>
       ELSE LET appended == Append(metrics_history, snap')
                recommendations ==
                    get_recommendations(snap', StateForRecommend(state', predicted), procs)
            IN
            /\ clock' = clock + 1
            /\ metrics_history' = appended
            /\ rec' = recommendations
            /\ IF recommendations.err # "none"
               THEN /\ pc' = "crashed"
                    /\ lastOp' = Op("monitor_sample", recommendations.err, "None", "none")
                    /\ UNCHANGED <<metrics_file, budget, saved, report>>
               ELSE /\ report' = [state |-> state',
                                  priority |-> recommendations.value.priority,
                                  predicted |-> predicted,
                                  ai_line |-> AiLine(state', predicted),
                                  in_log_at_recommend |-> InLog(snap', appended)]
                    /\ IF SaveDue(count')
                       THEN \E outcome \in WriteOutcomes :
                            /\ CanFail(outcome)
                            /\ metrics_file' = WriteResult(metrics_file,
                                                           json_dump(appended), outcome)
                            /\ saved' = SavedAfter(appended, outcome)
                            /\ budget' = Spend(outcome)
                            /\ pc' = IF outcome = "ok" THEN "monitoring" ELSE "crashed"
                            /\ lastOp' = Op("monitor_sample",
                                            IF outcome = "ok" THEN "none" ELSE "OSError",
                                            "None", "none")
                       ELSE /\ pc' = "monitoring"
                            /\ lastOp' = Op("monitor_sample", "none", "None", "none")
                            /\ UNCHANGED <<metrics_file, budget, saved>>
    /\ UNCHANGED <<fe, procs, topN, top, history_type, model, scaler, model_file, loop,
                   session, peer>>

\* The while condition "time.time() - start_time < duration" can be false
\* at any time once a pass has taken its seconds; before the first pass no
\* time has gone by.
LoopMayEnd == IF count = 0 THEN 0 >= loop.duration ELSE TRUE

\* run_monitoring after the loop: the final save_metrics.  At least one
\* pass was taken; the loop may end any time after it.
MonitorEnd ==
    /\ fe = "cli"
    /\ pc = "monitoring"
    /\ LoopMayEnd
    /\ \E outcome \in WriteOutcomes :
         /\ CanFail(outcome)
         /\ metrics_file' = WriteResult(metrics_file, json_dump(metrics_history), outcome)
         /\ saved' = SavedAfter(metrics_history, outcome)
         /\ budget' = Spend(outcome)
         /\ pc' = IF outcome = "ok" THEN "ready" ELSE "crashed"
         /\ lastOp' = Op("monitor_end", IF outcome = "ok" THEN "none" ELSE "OSError",
                         "None", IF outcome = "ok" THEN "monitoring_complete" ELSE "none")
    \* the locals of run_monitoring are gone when it is left
    /\ report' = NoReport
    /\ UNCHANGED <<fe, coreVars, metrics_history, history_type, model, scaler,
                   model_file, count, loop, clock, session, peer>>

\* Menu option 6: save_metrics, then leave the menu loop.
Exit ==
    /\ fe = "cli"
    /\ pc = "ready"
    /\ \E outcome \in WriteOutcomes :
         /\ CanFail(outcome)
         /\ metrics_file' = WriteResult(metrics_file, json_dump(metrics_history), outcome)
         /\ saved' = SavedAfter(metrics_history, outcome)
         /\ budget' = Spend(outcome)
         /\ pc' = IF outcome = "ok" THEN "exited" ELSE "crashed"
         /\ lastOp' = Op("exit", IF outcome = "ok" THEN "none" ELSE "OSError", "None", "none")
    /\ UNCHANGED <<fe, coreVars, metrics_history, history_type, model, scaler,
                   model_file, count, loop, clock, report, session, peer>>

\* The generation of the next fit: fits are numbered from 1.
NextGen == MaxTrainings - budget.train + 1

\* Faulty variant: the length test off by one
EnoughSamplesOffByOne(h) == Len(h) >= MinSamples - 1
EnoughSamples(h) == Len(h) >= MinSamples

\* Menu option 3 / sidebar button "Train Model": train_model.
\*   fewer than 10 entries: report and return False, nothing touched;
\*   otherwise scaler.fit, model.fit, then pickle.dump of the pair.  The
\*   command-line code lets a failed write escape; the Streamlit code
\*   returns (False, "Error saving model").
TrainModel ==
    /\ fe \in StoreFrontEnds
    /\ pc = "ready"
    /\ IF history_type # "list"
       THEN \* len() of a non-list value raises TypeError
            /\ lastOp' = Op("train_model", "TypeError", "None", "none")
            /\ UNCHANGED <<model, scaler, model_file, budget, pc, session>>
       ELSE IF ~EnoughSamples(metrics_history)
       THEN /\ lastOp' = Op("train_model", "none", "False", "need_at_least_10_samples")
            /\ UNCHANGED <<model, scaler, model_file, budget, pc, session>>
       ELSE /\ budget.train > 0
            /\ scaler' = [fitted |-> TRUE, gen |-> NextGen]
            /\ model' = [set |-> TRUE, gen |-> NextGen]
            /\ session' = [session EXCEPT !.trained = TRUE]
            /\ \E outcome \in WriteOutcomes :
                 /\ CanFail(outcome)
                 /\ model_file' = ModelWriteResult(model_file, Pickle(model', scaler'), outcome)
                 /\ budget' = [Spend(outcome) EXCEPT !.train = @ - 1]
                 /\ IF outcome = "ok"
                    THEN /\ lastOp' = Op("train_model", "none", "True", "model_trained")
                         /\ pc' = pc
                    ELSE IF fe = "cli"
                    THEN /\ lastOp' = Op("train_model", "OSError", "None", "none")
                         /\ pc' = "crashed"
                    ELSE /\ lastOp' = Op("train_model", "none", "False", "error_saving_model")
                         /\ pc' = pc
    /\ UNCHANGED <<fe, coreVars, metrics_history, history_type, metrics_file,
                   count, loop, clock, saved, report, peer>>

\* The program is started again (command line), or a new browser session
\* builds a new manager (Streamlit): the files are all that is kept.
Restart ==
    /\ \/ fe = "cli" /\ pc \in {"exited", "crashed"}
       \/ fe = "streamlit" /\ pc = "ready"
    /\ budget.restart > 0
    /\ budget' = [budget EXCEPT !.restart = @ - 1]
    /\ metrics_history' = <<>>
    /\ history_type' = "list"
    /\ model' = NoModel
    /\ scaler' = Unfitted
    /\ count' = 0
    /\ loop' = NoLoop
    /\ pc' = "start"
    /\ lastOp' = Op("init", "none", "None", "none")
    /\ report' = NoReport
    /\ session' = NoSession
    /\ UNCHANGED <<fe, coreVars, metrics_file, model_file, clock, saved, peer>>

\* Faulty variant: the single check records its snapshot in the log
SingleCheckLogging ==
    /\ fe = "cli"
    /\ pc = "ready"
    /\ snap' = Sample(clock + 1)
    /\ state' = analyze_system_state(snap')
    /\ rec' = get_recommendations(snap', state', procs)
    /\ metrics_history' = Append(metrics_history, snap')
    /\ pc' = IF rec'.err = "none" THEN "ready" ELSE "crashed"
    /\ lastOp' = Op("single_check", IF rec'.err = "none" THEN "none" ELSE rec'.err,
                    "None", "none")
    /\ UNCHANGED <<fe, procs, topN, top, history_type, model, scaler,
                   metrics_file, model_file, count, loop, clock, budget, saved,
                   report, session, peer>>

\* Menu option 1: collect, analyze_system_state, get_recommendations and
\* print the report.  An exception of get_recommendations leaves main().
SingleCheck ==
    /\ fe = "cli"
    /\ pc = "ready"
    /\ snap' = Sample(clock + 1)
    /\ state' = analyze_system_state(snap')
    /\ rec' = get_recommendations(snap', state', procs)
    /\ pc' = IF rec'.err = "none" THEN "ready" ELSE "crashed"
    /\ lastOp' = Op("single_check", IF rec'.err = "none" THEN "none" ELSE rec'.err,
                    "None", "none")
    /\ UNCHANGED <<fe, procs, topN, top, metrics_history, history_type, model, scaler,
                   metrics_file, model_file, count, loop, clock, budget, saved,
                   report, session, peer>>

\* The Streamlit script's page body: the sample count in the sidebar, then
\* collect_metrics, analyze_state, get_recommendations, get_top_processes(5).
Render ==
    /\ fe = "streamlit"
    /\ pc = "ready"
    /\ IF history_type # "list"
       THEN \* len(manager.metrics_history) of the sidebar raises TypeError
            /\ lastOp' = Op("render", "TypeError", "None", "none")
            /\ UNCHANGED <<snap, state, rec, top>>
       ELSE /\ snap' = Sample(clock + 1)
            /\ state' = analyze_state(snap')[1]
            /\ rec' = streamlit_get_recommendations(state', snap')
            /\ top' = streamlit_get_top_processes(procs, TopDefault)
            /\ lastOp' = Op("render", "none", "None", "none")
    /\ UNCHANGED <<fe, procs, topN, metrics_history, history_type, model, scaler,
                   metrics_file, model_file, pc, count, loop, clock, budget, saved,
                   report, session, peer>>

Next ==
    \/ LoadMetrics
    \/ LoadModel
    \/ CollectSample
    \/ StartMonitoring
    \/ MonitorSample
    \/ MonitorEnd
    \/ TrainModel
    \/ Exit
    \/ Restart

Spec == Init /\ [][Next]_vars

(***************************************************************************)
(* SpecMenu: every menu option and the Streamlit page body, the reports    *)
(* that only read included, on a manager whose files are written without   *)
(* failure.  The metrics file may hold the log of an earlier run that is    *)
(* one entry short of what train_model asks for.                           *)
(***************************************************************************)
MaxMenu == 3          \* snapshots appended in one behaviour of SpecMenu

EarlierLog == [i \in 1..(MinSamples - 1) |-> Sample(i - 1)]

InitMenu ==
    /\ fe \in StoreFrontEnds
    /\ snap = Sample(MinSamples - 2)
    /\ procs \in StoreEnums
    /\ topN = TopDefault
    /\ state = NoState
    /\ rec = NoRec
    /\ top = NoTop
    /\ Constructed
    /\ metrics_file \in {Absent, json_dump(EarlierLog)}
    /\ model_file \in InitModelFiles
    /\ pc = "start"
    /\ clock = MinSamples - 2
    /\ lastOp = Op("init", "none", "None", "none")
    /\ budget = [train |-> MaxTrainings, fail |-> 0, restart |-> 0,
                 samples |-> MinSamples - 2 + MaxMenu]
    /\ saved = NoSaved
    /\ peer = <<>>

NextMenu ==
    \/ LoadMetrics
    \/ LoadModel
    \/ SingleCheck
    \/ Render
    \/ CollectSample
    \/ StartMonitoring
    \/ MonitorSample
    \/ MonitorEnd
    \/ TrainModel
    \/ Exit

SpecMenu == InitMenu /\ [][NextMenu]_vars

(***************************************************************************)
(* SpecLong: long runs of appends from an empty manager, with no write     *)
(* failure, no training and no restart, so that the history can pass       *)
(* HistoryCap entries.                                                     *)
(***************************************************************************)
LongBudget == [train |-> 0, fail |-> 0, restart |-> 0, samples |-> MaxClock]

InitLong ==
    /\ fe \in StoreFrontEnds
    /\ snap = Sample(0)
    /\ procs = <<Proc("chrome.exe", 1500, 2500, "none")>>
    /\ topN = TopDefault
    /\ state = NoState
    /\ rec = NoRec
    /\ top = NoTop
    /\ Constructed
    /\ metrics_file \in {Absent, json_dump(PriorHistory)}
    /\ model_file = ModelFileOf("absent")
    /\ pc = "start"
    /\ clock = 0
    /\ lastOp = Op("init", "none", "None", "none")
    /\ budget = LongBudget
    /\ saved = NoSaved
    /\ peer = <<>>

NextLong ==
    \/ LoadMetrics
    \/ LoadModel
    \/ CollectSample
    \/ StartMonitoring
    \/ MonitorSample
    \/ MonitorEnd

SpecLong == InitLong /\ [][NextLong]_vars

(***************************************************************************)
(* SpecCore: classify and recommend applied to every snapshot of the       *)
(* input space, in each front end.  SpecRank: get_top_processes applied to *)
(* every enumeration of up to MaxProcs processes.                          *)
(***************************************************************************)
\* No manager is involved in the pure calls.
NoManager ==
    /\ Constructed
    /\ metrics_file = Absent
    /\ model_file = ModelFileOf("absent")
    /\ pc = "pure"
    /\ clock = 0
    /\ lastOp = Op("init", "none", "None", "none")
    /\ budget = [train |-> 0, fail |-> 0, restart |-> 0, samples |-> 0]
    /\ saved = NoSaved
    /\ peer = <<>>

Snapshots ==
    [timestamp : {1}, cpu_percent : CpuVals, memory_percent : MemVals,
     memory_available_gb : {40}, disk_percent : DiskVals, process_count : CountVals,
     cpu_freq : {0}]

\* Enumerations seen by recommend: none qualifying, one, two, one unreadable.
CoreEnums == { <<>>,
               <<Proc("idle", 0, 0, "none")>>,
               <<Proc("chrome.exe", 1500, 2500, "none")>>,
               <<Proc("svchost.exe", 100, 1234, "none"), Proc("chrome.exe", 1500, 2500, "none")>>,
               <<Proc("System", None, 4, "none")>> }

InitCore ==
    /\ fe \in FrontEnds
    /\ snap \in Snapshots
    /\ procs \in CoreEnums
    /\ topN = TopDefault
    /\ state = NoState
    /\ rec = NoRec
    /\ top = NoTop
    /\ NoManager

\* classify(snapshot)
Analyze ==
    /\ pc = "pure"
    /\ state = NoState
    /\ state' = Classify(fe, snap)
    /\ UNCHANGED <<fe, snap, procs, topN, rec, top, storeVars>>

\* recommend(snapshot, state) with the state the classifier produced
Recommend ==
    /\ pc = "pure"
    /\ state # NoState
    /\ rec = NoRec
    /\ rec' = RecommendOf(fe, snap, state, procs)
    /\ UNCHANGED <<fe, snap, procs, topN, state, top, storeVars>>

NextCore == Analyze \/ Recommend

SpecCore == InitCore /\ [][NextCore]_vars

\* Readings of one process: idle, tiny (below a hundredth of a percent),
\* equal sums, unreadable attributes, and a process that is gone or denied.
ProcReadings ==
    { [cpu_percent |-> 0,    memory_percent |-> 0,    raises |-> "none"],
      [cpu_percent |-> 0,    memory_percent |-> 4,    raises |-> "none"],
      [cpu_percent |-> 0,    memory_percent |-> 1500, raises |-> "none"],
      [cpu_percent |-> 1500, memory_percent |-> 0,    raises |-> "none"],
      [cpu_percent |-> 2500, memory_percent |-> 3012, raises |-> "none"],
      [cpu_percent |-> None, memory_percent |-> 1500, raises |-> "none"],
      [cpu_percent |-> 1500, memory_percent |-> None, raises |-> "none"],
      [cpu_percent |-> 1500, memory_percent |-> 1500, raises |-> "NoSuchProcess"],
      [cpu_percent |-> 1500, memory_percent |-> 1500, raises |-> "AccessDenied"] }

ProcNames == <<"p1", "p2", "p3", "p4">>

\* Every enumeration of up to MaxProcs processes; the i-th is named p<i>.
Enumerations ==
    UNION { { [i \in 1..k |-> Proc(ProcNames[i], r[i].cpu_percent, r[i].memory_percent,
                                   r[i].raises)] : r \in [1..k -> ProcReadings] }
            : k \in 0..MaxProcs }

InitRank ==
    /\ fe \in FrontEnds
    /\ snap = Sample(0)
    /\ procs \in Enumerations
    /\ topN \in 0..MaxN
    /\ state = NoState
    /\ rec = NoRec
    /\ top = NoTop
    /\ NoManager

\* top_processes(n)
TopProcesses ==
    /\ pc = "pure"
    /\ top = NoTop
    /\ top' = TopProcessesOf(fe, procs, topN)
    /\ UNCHANGED <<fe, snap, procs, topN, state, rec, storeVars>>

NextRank == TopProcesses

SpecRank == InitRank /\ [][NextRank]_vars

(***************************************************************************)
(* Claims about the classifier and the recommendation engine (SpecCore).   *)
(***************************************************************************)
\* The two front ends whose classifier returns a member of the State
\* enumeration under its own name.
NamedStateFrontEnds == {"cli", "dashboard"}

Classified == state # NoState /\ fe \in NamedStateFrontEnds

\* C1: classify returns CRITICAL if cpu > 80 or memory > 85, otherwise
\* HIGH_LOAD if cpu > 60 or memory > 70, otherwise MODERATE if cpu > 30 or
\* memory > 50, otherwise IDLE; the comparisons are strict, so a value
\* exactly at a threshold with the other resource low gives the lower band;
\* and every snapshot with the same cpu and memory, whatever its other
\* fields, is given the same state.
C1_ClassifyCascade ==
    Classified =>
      LET cpu == snap.cpu_percent
          mem == snap.memory_percent
          crit == cpu > 800 \/ mem > 850
          high == cpu > 600 \/ mem > 700
          mod  == cpu > 300 \/ mem > 500
      IN  /\ crit => state = "CRITICAL"
          /\ (~crit /\ high) => state = "HIGH_LOAD"
          /\ (~crit /\ ~high /\ mod) => state = "MODERATE"
          /\ (~crit /\ ~high /\ ~mod) => state = "IDLE"
          /\ (cpu = 800 /\ mem <= 700) => state = "HIGH_LOAD"
          /\ (cpu = 600 /\ mem <= 500) => state = "MODERATE"
          /\ (cpu = 300 /\ mem <= 500) => state = "IDLE"
          /\ (mem = 850 /\ cpu <= 600) => state = "HIGH_LOAD"
          /\ (mem = 700 /\ cpu <= 300) => state = "MODERATE"
          /\ (mem = 500 /\ cpu <= 300) => state = "IDLE"
          /\ \A other \in Snapshots :
                (other.cpu_percent = cpu /\ other.memory_percent = mem)
                   => Classify(fe, other) = state

\* C1 witness: cpu exactly at 80.0 with memory low was classified, in the
\* command-line front end.
C1_Witness ==
    /\ fe = "cli"
    /\ state = "HIGH_LOAD"
    /\ snap.cpu_percent = 800
    /\ snap.memory_percent = 0

Returned == rec.err = "none" /\ fe \in NamedStateFrontEnds

PairedPriority(st) ==
    CASE st = "CRITICAL"  -> "CRITICAL"
      [] st = "HIGH_LOAD" -> "HIGH"
      [] st = "MODERATE"  -> "MEDIUM"
      [] st = "IDLE"      -> "LOW"
      [] OTHER            -> "UNPAIRED"

\* C4: every Recommendation returned by recommend carries the state it was
\* given and the priority paired with that state (CRITICAL with CRITICAL,
\* HIGH_LOAD with HIGH, MODERATE with MEDIUM, IDLE with LOW).
C4_StatePriorityPaired ==
    Returned =>
      /\ "state" \in DOMAIN rec.value
      /\ "priority" \in DOMAIN rec.value
      /\ rec.value.state = state
      /\ rec.value.priority = PairedPriority(state)

Headline(st) ==
    CASE st = "CRITICAL"  -> "CRITICAL: System under heavy load"
      [] st = "HIGH_LOAD" -> "System experiencing high load"
      [] st = "MODERATE"  -> "System running normally"
      [] st = "IDLE"      -> "System running optimally"

\* The ranked processes the front end's recommend has at hand.
Ranked == TopProcessesOf(fe, procs, TopDefault).list

\* The lines of a that follow position k, and among them the process lines.
After(a, k) == SubSeq(a, k + 1, Len(a))
ProcLinesOf(l) == SelectSeq(l, LAMBDA x : x.kind = "proc")

\* C5: the action list returned by recommend is the state's advisory
\* template (its first entry the state's headline), then the memory and
\* CPU readout lines, then the rendering of the ranked processes, one line
\* per process in rank order with its name, CPU and memory; nothing follows
\* the readout lines when no process qualifies.
C5_ActionListShape ==
    Returned =>
      LET a == rec.value.actions IN
      \E k \in 1..Len(a) :
         /\ \A i \in 1..k : a[i].kind = "advice"
         /\ a[1].text = Headline(state)
         /\ state = "IDLE" => a[2].text = "No immediate actions needed"
         /\ Len(a) >= k + 2
         /\ a[k + 1] = MemLine(snap)
         /\ a[k + 2] = CpuLine(snap)
         /\ LET rest == After(a, k + 2) IN
            /\ Ranked = <<>> => rest = <<>>
            /\ ProcLinesOf(rest) = [i \in 1..Len(Ranked) |-> ProcLine(Ranked[i])]
            /\ \A i \in 1..Len(rest) : rest[i].kind \in {"header", "proc"}

(***************************************************************************)
(* Claims about the process ranker (SpecRank).                             *)
(***************************************************************************)
RankReturned == top.err = "none"

\* The processes of the enumeration that can be read.
Readable(i) ==
    /\ procs[i].raises = "none"
    /\ procs[i].cpu_percent # None
    /\ procs[i].memory_percent # None

\* The positions of the qualifying processes: readable, cpu > 0 or memory > 0.
Qualifying ==
    { i \in 1..Len(procs) :
        Readable(i) /\ (procs[i].cpu_percent > 0 \/ procs[i].memory_percent > 0) }

Usage(i) == procs[i].cpu_percent + procs[i].memory_percent

\* i is ranked before j: greater cpu + memory, or the same and enumerated first.
Before(i, j) == Usage(i) > Usage(j) \/ (Usage(i) = Usage(j) /\ i < j)

\* The rank of a qualifying process: 1 + the number of those before it.
RankOf(i) == 1 + Cardinality({ j \in Qualifying : Before(j, i) })

\* The qualifying position of rank r.
AtRank(r) == CHOOSE i \in Qualifying : RankOf(i) = r

\* C6: top_processes(n) returns at most n entries, every returned entry has
\* cpu > 0 or memory > 0, the entries are in non-increasing order of
\* cpu + memory, and the result is the first n entries of the ordering of
\* all qualifying processes by cpu + memory descending with ties in
\* enumeration order (fewer only when fewer qualify).
C6_TopProcessesRanking ==
    RankReturned =>
      LET l == top.list IN
      /\ Len(l) <= topN
      /\ \A i \in 1..Len(l) : l[i].cpu > 0 \/ l[i].memory > 0
      /\ \A i \in 1..Len(l) - 1 : l[i].cpu + l[i].memory >= l[i + 1].cpu + l[i + 1].memory
      /\ Len(l) = Min(topN, Cardinality(Qualifying))
      /\ \A r \in 1..Len(l) : l[r].name = procs[AtRank(r)].name

\* C7: top_processes never fails because of an individual process: a
\* process that has exited or whose cpu or memory reading is unavailable
\* (None) is skipped, and the call returns the ranking of the others.
C7_TopProcessesNeverFails ==
    top # NoTop =>
      /\ top.err = "none"
      /\ Len(top.list) = Min(topN, Cardinality(Qualifying))
      /\ \A r \in 1..Len(top.list) : top.list[r].name = procs[AtRank(r)].name

(***************************************************************************)
(* Claims about the history store.                                         *)
(***************************************************************************)
\* The last operation appended a snapshot to the history log.
Appended ==
    \/ lastOp.op = "save_metrics" /\ lastOp.raised = "none"
    \/ lastOp.op = "monitor_sample"

\* C2: after any append of a snapshot, in any front end and from any
\* starting log, the in-memory history log has at most 100 entries.
C2_HistoryBounded ==
    Appended => Len(metrics_history) <= HistoryCap

\* The snapshots appended so far, in append order.
AppendedSoFar == [i \in 1..clock |-> Sample(i)]

LastOf(s, n) == SubSeq(s, Len(s) - n + 1, Len(s))

\* No entry of the log was restored from storage: the log started empty.
StartedEmpty == \A i \in 1..Len(metrics_history) : metrics_history[i].timestamp >= 1

\* C3: appending k snapshots one after another to an initially empty log
\* leaves the log equal to the last min(k, 100) appended snapshots, in
\* their append order.
C3_LastHundredInOrder ==
    (Appended /\ StartedEmpty) =>
        metrics_history = LastOf(AppendedSoFar, Min(clock, HistoryCap))

\* The message the last operation reported is a warning.
Warned == lastOp.msg \in {"warn_empty_file", "warn_corrupted_file"}

\* C8: restore (load_metrics) never fails; with the persisted history absent
\* the log is empty afterwards; with it present but empty, or not parseable
\* as a list of records, the log is empty afterwards and a warning is
\* reported; only well-formed content produces a non-empty log.
C8_RestoreNeverFails ==
    lastOp.op = "load_metrics" =>
      /\ lastOp.raised = "none"
      /\ history_type = "list"
      /\ metrics_file.kind = "absent" => metrics_history = <<>>
      /\ metrics_file.kind \in {"empty", "malformed", "nonlist"} =>
            (metrics_history = <<>> /\ Warned)
      /\ metrics_history # <<>> => metrics_file.kind = "list"

\* C9: persisting a well-formed non-empty history log and then restoring
\* it into a fresh manager yields a log equal to the one persisted, entry
\* for entry and in the same order; the save overwrites the whole file, so
\* nothing of an earlier save is in the restored log.
C9_RoundTrip ==
    (lastOp.op = "load_metrics" /\ saved.valid /\ saved.log # <<>>) =>
      /\ lastOp.raised = "none"
      /\ history_type = "list"
      /\ metrics_history = saved.log

\* C9 witness: a fresh manager restored a log of several entries that an
\* earlier save, itself not the first one, had written.
C9_Witness ==
    /\ lastOp.op = "load_metrics"
    /\ budget.restart < MaxRestarts
    /\ saved.valid
    /\ Len(saved.log) >= 4
    /\ metrics_history = saved.log

(***************************************************************************)
(* Claims about training.                                                  *)
(***************************************************************************)
\* train_model was the last operation, on a history that is a list.
Trained == lastOp.op = "train_model" /\ history_type = "list"

InsufficientReported ==
    /\ lastOp.raised = "none"
    /\ lastOp.ret = "False"
    /\ lastOp.msg = "need_at_least_10_samples"

\* C10 as stated: train fails with the reported reason "insufficient
\* samples", without raising, whenever the log has fewer than 10 entries;
\* with 10 or more well-formed entries train succeeds and a model is
\* available to predict.
C10_AsStated ==
    Trained =>
      IF Len(metrics_history) < MinSamples
      THEN InsufficientReported
      ELSE /\ lastOp.raised = "none"
           /\ lastOp.ret = "True"
           /\ model.set

\* The persisted model is the pair now in memory.
ModelPersisted == model_file = Pickle(model, scaler)

C10_Outcome ==
    Trained =>
      IF Len(metrics_history) < MinSamples
      THEN InsufficientReported
      ELSE /\ model.set
           /\ scaler.fitted
           /\ scaler.gen = model.gen
           /\ lastOp.ret = "True" <=> ModelPersisted

C10_Frame ==
    (lastOp'.op = "train_model" /\ lastOp'.msg = "need_at_least_10_samples")
        => UNCHANGED <<model, scaler, model_file>>

\* C10 amended: train fails with the reported reason "insufficient samples",
\* without raising, whenever the log has fewer than 10 entries (9 fails),
\* and then leaves the in-memory model, the scaler and the persisted model
\* unchanged; with 10 or more well-formed entries train fits a scaler and a
\* model that are available in memory to predict, and it reports success
\* exactly when the pair was also written to the persisted model.
C10_TrainPrecondition == [](C10_Outcome) /\ [][C10_Frame]_vars

\* C10 witness: train was refused on a log of exactly 9 entries.
C10_Witness ==
    /\ Trained
    /\ Len(metrics_history) = MinSamples - 1
    /\ InsufficientReported

\* ---------------------------------------------------------------------
\* C11: predict without a model

\* No model is available to the running process: train_model fitted none
\* and load_model did not report a loaded model.
NoModelAvailable == ~session.trained /\ session.load_ok # "True"

Monitored == fe = "cli" /\ lastOp.op = "monitor_sample"

\* C11: whenever no model is available (none was trained in this process
\* and the persisted model was absent, empty or could not be loaded), the
\* prediction of a monitoring pass is "unavailable" (None) and predict
\* raises no error.
C11_PredictUnavailable ==
    (Monitored /\ NoModelAvailable) =>
        /\ lastOp.raised # "NotFittedError"
        /\ lastOp.raised = "none" => report.predicted = "None"

\* ---------------------------------------------------------------------
\* C12: the prediction never replaces the classifier's state

\* A monitoring pass that got as far as printing its report.
Reported == Monitored /\ lastOp.raised \in {"none", "OSError"}

\* C12: in every monitoring sample the state reported and handed to
\* recommend is the rule-based classifier's result for the snapshot,
\* whatever the model predicts; the prediction is printed only as an extra
\* line, and only when a model is set and its prediction differs from the
\* classifier's state.
C12_ClassifierStateAuthoritative ==
    Reported =>
        /\ report.state = analyze_system_state(snap)
        /\ rec.value.state = report.state
        /\ report.priority = PairedPriority(report.state)
        /\ report.ai_line # "none" <=> (model.set /\ report.predicted # report.state)
        /\ report.ai_line # "none" => report.ai_line = report.predicted

\* C12 witness: a model is set, it predicted another state than the
\* classifier, the extra line was printed and the recommendation is still
\* the one for the classifier's state.
C12_Witness ==
    /\ Reported
    /\ model.set
    /\ report.predicted = "CRITICAL"
    /\ report.state = "MODERATE"
    /\ report.ai_line = "CRITICAL"
    /\ rec.value.state = "MODERATE"

\* ---------------------------------------------------------------------
\* C13: a failed write does not abort the pipeline

\* The last operation met a failure while writing one of the two files.
WriteFailed ==
    /\ lastOp.op \in {"save_metrics", "train_model", "monitor_sample", "monitor_end"}
    /\ \/ lastOp.raised = "OSError"
       \/ lastOp.msg \in {"error_saving_metrics", "error_saving_model"}

\* C13: a failure while writing the persisted history or model is reported
\* and does not abort the in-memory pipeline: no exception escapes
\* append-and-persist, train or the monitoring loop, the log in memory
\* still ends with the appended snapshot, and further samples can follow.
C13_WriteFailureContained ==
    WriteFailed =>
        /\ lastOp.raised = "none"
        /\ pc \notin {"crashed"}
        /\ lastOp.op \in {"save_metrics", "monitor_sample"} =>
              (metrics_history # <<>> /\ metrics_history[Len(metrics_history)] = snap)

\* ---------------------------------------------------------------------
\* C14: classify is monotone

\* The rank of a state in the order IDLE < MODERATE < HIGH_LOAD < CRITICAL;
\* the Streamlit names OPTIMAL and HIGH LOAD stand for the first and third.
Severity(st) ==
    CASE st \in {"IDLE", "OPTIMAL"}        -> 0
      [] st = "MODERATE"                   -> 1
      [] st \in {"HIGH_LOAD", "HIGH LOAD"} -> 2
      [] st = "CRITICAL"                   -> 3

WithCpu(m, c) == [m EXCEPT !.cpu_percent = c]
WithMem(m, v) == [m EXCEPT !.memory_percent = v]

\* C14: classify is monotone in each resource: raising cpu with memory
\* fixed, or raising memory with cpu fixed, never yields a state of lower
\* rank than the one classify returned, for all values in [0, 100].
C14_ClassifyMonotone ==
    state # NoState =>
        /\ \A c \in CpuVals :
              c >= snap.cpu_percent =>
                  Severity(Classify(fe, WithCpu(snap, c))) >= Severity(state)
        /\ \A v \in MemVals :
              v >= snap.memory_percent =>
                  Severity(Classify(fe, WithMem(snap, v))) >= Severity(state)

\* C14 witness: a snapshot classified MODERATE for which more cpu gives
\* CRITICAL and more memory gives HIGH LOAD.
C14_Witness ==
    /\ fe = "streamlit"
    /\ state = "MODERATE"
    /\ snap.cpu_percent = 301
    /\ snap.memory_percent = 100
    /\ Classify(fe, WithCpu(snap, 801)) = "CRITICAL"
    /\ Classify(fe, WithMem(snap, 701)) = "HIGH LOAD"

(***************************************************************************)
(* SpecShared: two managers of the same front end, started on the same     *)
(* metrics file.  Instance 1 keeps its log in metrics_history, instance 2  *)
(* in peer.  A save is taken as one step: the file is opened with 'w' and  *)
(* the whole log is dumped into it.                                        *)
(***************************************************************************)
MaxShared == 5        \* snapshots appended by the two instances together

Instances == {1, 2}
InstanceName(i) == IF i = 1 THEN "instance_1" ELSE "instance_2"
LogOf(i) == IF i = 1 THEN metrics_history ELSE peer

\* The list a load would find in the metrics file now.
PersistedLog == IF metrics_file.kind = "list" THEN json_loads(metrics_file).value ELSE <<>>

\* Faulty variant: a save that keeps what the file held and adds the
\* entries of the log that are not in it
FileAfterSaveMerged(old, h) ==
    LET kept == IF old.kind = "list" THEN json_loads(old).value ELSE <<>>
        new  == SelectSeq(h, LAMBDA m : ~InLog(m, kept))
    IN  json_dump(kept \o new)
\* save_metrics: open(self.config_file, 'w') and json.dump of the whole log
FileAfterSave(old, h) == WriteResult(old, json_dump(h), "ok")

\* Both instances were started on the same file and restored it.
InitShared ==
    /\ fe \in StoreFrontEnds
    /\ snap = Sample(0)
    /\ procs = <<>>
    /\ topN = TopDefault
    /\ state = NoState
    /\ rec = NoRec
    /\ top = NoTop
    /\ metrics_file \in {Absent, json_dump(PriorHistory)}
    /\ metrics_history = PersistedLog
    /\ peer = PersistedLog
    /\ history_type = "list"
    /\ model = NoModel
    /\ scaler = Unfitted
    /\ model_file = ModelFileOf("absent")
    /\ pc = "shared"
    /\ count = 0
    /\ loop = NoLoop
    /\ clock = 0
    /\ lastOp = Op("init", "none", "None", "none")
    /\ budget = [train |-> 0, fail |-> 0, restart |-> 0, samples |-> MaxShared]
    /\ saved = NoSaved
    /\ report = NoReport
    /\ session = NoSession

\* run_monitoring of instance i appends a snapshot to its own log.
SharedAppend(i) ==
    /\ fe = "cli"
    /\ pc = "shared"
    /\ clock < budget.samples
    /\ snap' = Sample(clock + 1)
    /\ clock' = clock + 1
    /\ metrics_history' = IF i = 1 THEN Append(metrics_history, snap') ELSE metrics_history
    /\ peer' = IF i = 2 THEN Append(peer, snap') ELSE peer
    /\ lastOp' = Op("shared_append", "none", "None", InstanceName(i))
    /\ UNCHANGED <<fe, procs, topN, state, rec, top, history_type, model, scaler,
                   metrics_file, model_file, pc, count, loop, budget, saved, report, session>>

\* WindowsConfigManager.save_metrics of instance i.
SharedSave(i) ==
    /\ fe = "cli"
    /\ pc = "shared"
    /\ metrics_file' = FileAfterSave(metrics_file, LogOf(i))
    /\ saved' = SavedAfter(LogOf(i), "ok")
    /\ lastOp' = Op("shared_save", "none", "None", InstanceName(i))
    /\ UNCHANGED <<fe, coreVars, metrics_history, peer, history_type, model, scaler,
                   model_file, pc, count, loop, clock, budget, report, session>>

\* ConfigManager.save_metrics(metrics) of session i: append, keep the
\* last 100, write the whole log.
SharedCollect(i) ==
    /\ fe = "streamlit"
    /\ pc = "shared"
    /\ clock < budget.samples
    /\ snap' = Sample(clock + 1)
    /\ clock' = clock + 1
    /\ LET appended == Trim(Append(LogOf(i), snap')) IN
       /\ metrics_history' = IF i = 1 THEN appended ELSE metrics_history
       /\ peer' = IF i = 2 THEN appended ELSE peer
       /\ metrics_file' = FileAfterSave(metrics_file, appended)
       /\ saved' = SavedAfter(appended, "ok")
    /\ lastOp' = Op("shared_save", "none", "None", InstanceName(i))
    /\ UNCHANGED <<fe, procs, topN, state, rec, top, history_type, model, scaler,
                   model_file, pc, count, loop, budget, report, session>>

NextShared ==
    \/ \E i \in Instances : SharedAppend(i)
    \/ \E i \in Instances : SharedSave(i)
    \/ \E i \in Instances : SharedCollect(i)

SpecShared == InitShared /\ [][NextShared]_vars

\* The instance whose save was the last step, and the other one.
Saver == IF lastOp.msg = "instance_1" THEN 1 ELSE 2
Other == 3 - Saver

SnapshotLogged ==
    metrics_history # <<>> /\ metrics_history[Len(metrics_history)] = snap

\* C16: within one pass the order is collect, classify, build the
\* recommendation and only then append: the snapshot is not yet in the log
\* when its recommendation is built, so a pass whose recommendation was
\* built found the log without the snapshot, and a pass whose
\* recommendation could not be built appended nothing.
C16_AppendAfterRecommend ==
    /\ Reported => ~report.in_log_at_recommend
    /\ (Monitored /\ lastOp.raised = "TypeError") => ~SnapshotLogged

\* ---------------------------------------------------------------------
\* C17: the three front ends agree

\* The State enumeration of the specification.
StateEnumeration == {"IDLE", "MODERATE", "HIGH_LOAD", "CRITICAL"}

\* The list of lines in what a front end's recommend returned.
ActionsOf(f, r) == IF f = "streamlit" THEN r.value ELSE r.value.actions

\* The advisory template in a list of lines: its fixed advisory strings.
AdviceTexts(lines) ==
    LET advice == SelectSeq(lines, LAMBDA l : l.kind = "advice")
    IN  [i \in 1..Len(advice) |-> advice[i].text]

\* What front end f recommends for the snapshot, from its own classifier.
TemplateOf(f) ==
    AdviceTexts(ActionsOf(f, RecommendOf(f, snap, Classify(f, snap), procs)))

\* C17: the classifiers of the three front ends return the same member of
\* the State enumeration for every (cpu, memory), and their recommend
\* implementations return the same advisory template for that state.
C17_FrontEndsEquivalent ==
    (rec.err = "none") =>
        /\ state \in StateEnumeration
        /\ \A f \in FrontEnds : Classify(f, snap) = state
        /\ \A f \in FrontEnds : TemplateOf(f) = AdviceTexts(ActionsOf(fe, rec))

\* ---------------------------------------------------------------------
\* C18: what the read-only operations leave alone

StoreState == <<metrics_history, history_type, model, scaler, metrics_file, model_file>>

\* The step was a single check or a page render: classify, recommend and
\* top_processes and nothing else.
ReadOnlyStep == lastOp'.op \in {"single_check", "render"}

C18_Step ==
    /\ ReadOnlyStep => UNCHANGED StoreState
    \* predict, as part of a monitoring pass
    /\ lastOp'.op = "monitor_sample" => UNCHANGED <<model, scaler, model_file>>
    /\ metrics_history' # metrics_history =>
          lastOp'.op \in {"monitor_sample", "save_metrics", "load_metrics", "init"}
    /\ model' # model => lastOp'.op \in {"train_model", "load_model", "init"}

\* C18: classify, recommend, top_processes, predict and the single-check
\* analysis leave the log, the model, the scaler and both files unchanged;
\* the log changes only through an append or the restore (or the
\* construction) at startup, the model only through train or the model
\* load (or the construction).
C18_ReadOnlyFrame == [][C18_Step]_vars

\* C18 witness: a single check built a report for a snapshot that is not
\* in the log, with a model set and a log that is not empty.
C18_Witness ==
    /\ lastOp.op = "single_check"
    /\ lastOp.raised = "none"
    /\ rec.value.state = state
    /\ model.set
    /\ metrics_history # <<>>
    /\ ~InLog(snap, metrics_history)

\* ---------------------------------------------------------------------
\* C19: the model and its scaler

\* The scaler beside the model is the one fitted or loaded with it.
Paired == model.set => (scaler.fitted /\ scaler.gen = model.gen)

LoadFailed  == lastOp'.op = "load_model" /\ lastOp'.ret # "True"
TrainFailed == lastOp'.op = "train_model" /\ lastOp'.ret # "True"

C19_Step == (LoadFailed \/ TrainFailed) => UNCHANGED <<model, scaler>>

\* C19: whenever a model is set, the scaler beside it is the one that was
\* fitted or loaded together with it; a load_model that fails or finds a
\* malformed file, and a train_model that fails at any step, leave the
\* model and the scaler exactly as they were, so predict never combines a
\* classifier with a scaler of another (or of no) training.
C19_ModelScalerPaired ==
    /\ [](Paired /\ lastOp.raised # "NotFittedError")
    /\ [][C19_Step]_vars

\* ---------------------------------------------------------------------
\* C20: when monitoring saves

\* The number of entries of the log that the metrics file does not hold.
IsPrefix(p, h) == Len(p) <= Len(h) /\ p = SubSeq(h, 1, Len(p))
Missing == Len(metrics_history) - Len(PersistedLog)

\* C20: during run_monitoring the log is saved after every third sample
\* and once more when the loop ends: between samples the file holds the
\* log but for at most its last two snapshots; when run_monitoring returns,
\* and when Exit completes, the file holds the whole log; and the loop
\* takes at least one sample for any positive duration.
C20_MonitoringSaves ==
    /\ (fe = "cli" /\ pc = "monitoring") =>
          /\ IsPrefix(PersistedLog, metrics_history)
          /\ Missing <= 2
          /\ (count > 0 /\ count % 3 = 0) => Missing = 0
    /\ (lastOp.op \in {"monitor_end", "exit"} /\ lastOp.raised = "none") =>
          PersistedLog = metrics_history
    /\ lastOp.op = "monitor_end" => count >= 1

\* C20 witness: between the fifth and the sixth sample of a run the file
\* holds the log as saved after the third sample; two snapshots are missing.
C20_Witness ==
    /\ fe = "cli"
    /\ pc = "monitoring"
    /\ count = 5
    /\ Missing = 2
    /\ Len(PersistedLog) >= 3

====
